---- MODULE Spec2Model ----
(***************************************************************************)
(* benchmark_plot.py: one run of main().  The CSV files named on the       *)
(* command line are read one by one, concatenated, grouped by              *)
(* (Binary, Benchmark File) with the mean of Runtime (s), and the          *)
(* resulting table is drawn as a grouped bar chart that is either saved    *)
(* or shown.                                                               *)
(*                                                                         *)
(* Numbers are exact rationals [num, den] in lowest terms; NaN is 0/0.     *)
(* The runtimes of the input rows are small integers, for which the        *)
(* binary64 sums of the program are exact as well.                         *)
(*                                                                         *)
(* Spec is the whole run.  SpecAgg and SpecReordered are                   *)
(* process_benchmark_data alone, SpecChart is create_bar_chart alone on    *)
(* the table of one file.                                                  *)
(***************************************************************************)
EXTENDS Integers, Sequences, FiniteSets

\* ---------------------------------------------------------------- bounds
MaxFiles == 2
MaxRows == 3
MaxBinaries == 3

\* ------------------------------------------------------------- rationals
RECURSIVE GCD(_, _)
GCD(a, b) == IF b = 0 THEN a ELSE GCD(b, a % b)

Abs(a) == IF a < 0 THEN -a ELSE a

Rat(n, d) ==
    LET g == GCD(Abs(n), Abs(d))
        s == IF d < 0 THEN -1 ELSE 1
    IN  [num |-> (s * n) \div g, den |-> (s * d) \div g]

NaN == [num |-> 0, den |-> 0]
IsNaN(r) == r.den = 0
Int2Rat(n) == [num |-> n, den |-> 1]

RAdd(a, b) == Rat(a.num * b.den + b.num * a.den, a.den * b.den)
RSub(a, b) == Rat(a.num * b.den - b.num * a.den, a.den * b.den)
RMul(a, b) == Rat(a.num * b.num, a.den * b.den)
RLess(a, b) == a.num * b.den < b.num * a.den
\* a / n for a Python int n # 0
RDivInt(a, n) == Rat(a.num, a.den * n)

\* ------------------------------------------------------------ the inputs
AllColumns == {"Binary", "Benchmark File", "Runtime (s)"}

\* Names in lexicographic order, the order pandas sorts group keys in.
NameOrder ==
    <<"NaN", "b1.lox", "b2.lox", "b3.lox",
      "build/clox", "build/jlox", "build/rlox", "build/zlox">>
Rank(s) == CHOOSE k \in 1..Len(NameOrder) : NameOrder[k] = s

NaNKey == "NaN"
FullRun == [headers |-> {AllColumns, AllColumns \ {"Runtime (s)"}, AllColumns \ {"Binary"}},
            binaries |-> {"build/clox", "build/jlox"},
            benchmarks |-> {"b1.lox", "b2.lox", "b3.lox"},
            runtimes |-> {Int2Rat(1), Int2Rat(3)}]

\* The inputs of the aggregation on its own: files with the three columns
\* or without the Binary column, over two benchmarks.
AggOnly == [headers |-> {AllColumns, AllColumns \ {"Binary"}},
            binaries |-> {"build/clox", "build/jlox"},
            benchmarks |-> {"b1.lox", "b2.lox"},
            runtimes |-> {Int2Rat(1), Int2Rat(3)}]

\* The inputs of the aggregation of reordered files: files with the three
\* columns, over one benchmark.
Reordered == [headers |-> {AllColumns},
              binaries |-> {"build/clox", "build/jlox"},
              benchmarks |-> {"b1.lox"},
              runtimes |-> {Int2Rat(1), Int2Rat(3)}]

\* The rows of a CSV file with header cols: one cell per column of the header.
RowsOver(cols, u) ==
    { [c \in cols |-> IF c = "Binary" THEN b
                      ELSE IF c = "Benchmark File" THEN k ELSE t] :
      b \in u.binaries, k \in u.benchmarks, t \in u.runtimes }

Unreadable == [readable |-> FALSE, columns |-> {}, rows |-> <<>>]

\* The files of exactly k rows that can be read.
FilesOfLen(k, u) ==
    UNION { { [readable |-> TRUE, columns |-> cols, rows |-> rs] :
                rs \in [1..k -> RowsOver(cols, u)] } : cols \in u.headers }

\* What pd.read_csv may find at a path, by number of rows.
FullRunFiles == [k \in 0..MaxRows |-> FilesOfLen(k, FullRun)]
AggOnlyFiles == [k \in 0..MaxRows |-> FilesOfLen(k, AggOnly)]
ReorderedFiles == [k \in 0..MaxRows |-> FilesOfLen(k, Reordered)]

\* args.output: None is <<>>, a string s is <<s>>.
None == <<>>
Outputs == {None, <<"">>, <<"chart.png">>}

\* Python truthiness of args.output (line 69): None and "" are false.
Truthy(o) == o # None /\ o[1] # ""

\* Path(binary).name and Path(b).stem for the names above.
PathName(s) ==
    CASE s = "build/clox" -> "clox"
      [] s = "build/jlox" -> "jlox"
      [] s = "build/rlox" -> "rlox"
      [] s = "build/zlox" -> "zlox"
      [] OTHER -> s

PathStem(s) ==
    CASE s = "b1.lox" -> "b1"
      [] s = "b2.lox" -> "b2"
      [] s = "b3.lox" -> "b3"
      [] OTHER -> s

\* ------------------------------------------------------------- the state
VARIABLES
    nfiles,       \* len(args.files)
    files,        \* what pd.read_csv found at the paths tried so far, in order
    output,       \* args.output
    pc,           \* the statement main() is at
    dfs,          \* process_benchmark_data: the frames read so far
    combined_df,  \* process_benchmark_data: the concatenated frame
    data,         \* the table process_benchmark_data returned
    benchmarks,   \* create_bar_chart: data['Benchmark File'].unique()
    bar_width,    \* create_bar_chart: 0.8 / number of binaries
    containers,   \* one bar container per plt.bar call, in call order
    xticks,       \* the tick labels set by plt.xticks, by tick position
    saved,        \* the path plt.savefig wrote to
    printed,      \* the lines printed
    shown         \* plt.show() was called

vars == <<nfiles, files, output, pc, dfs, combined_df, data, benchmarks, bar_width,
          containers, xticks, saved, printed, shown>>

NoFrame == [columns |-> {}, rows |-> <<>>]

\* main() after parse_args, with the output option among outs.
InitWith(outs) ==
    /\ nfiles \in 1..MaxFiles
    /\ files = <<>>
    /\ output \in outs
    /\ pc = "read"
    /\ dfs = <<>>
    /\ combined_df = NoFrame
    /\ data = <<>>
    /\ benchmarks = <<>>
    /\ bar_width = NaN
    /\ containers = <<>>
    /\ xticks = <<>>
    /\ saved = None
    /\ printed = <<>>
    /\ shown = FALSE

Init == InitWith(Outputs)

\* ------------------------------------------------ process_benchmark_data
\* The number of rows read so far.
RECURSIVE RowsRead(_)
RowsRead(frames) ==
    IF frames = <<>> THEN 0 ELSE Len(frames[1].rows) + RowsRead(Tail(frames))

\* pd.read_csv(file_path) for the next path of the loop finds one of the
\* files of found and the frame is appended to dfs.
ReadFrom(found) ==
    /\ pc = "read"
    /\ Len(dfs) < nfiles
    /\ \E k \in 0..(MaxRows - RowsRead(dfs)) : \E f \in found[k] :
        /\ files' = Append(files, f)
        /\ dfs' = Append(dfs, [columns |-> f.columns, rows |-> f.rows])
    /\ UNCHANGED <<nfiles, output, pc, combined_df, data, benchmarks, bar_width,
                   containers, xticks, saved, printed, shown>>

\* Lines 22-24 in a run of main().
ReadCsv == ReadFrom(FullRunFiles)

\* Lines 22-24 over the files of the aggregation on its own.
ReadCsvAgg == ReadFrom(AggOnlyFiles)

\* Lines 22-24 over the files of the aggregation of reordered files.
ReadCsvReordered == ReadFrom(ReorderedFiles)

\* Mutant of ReadCsvError: the exception is swallowed, an empty frame stands
\* in for the file and the loop goes on.
ReadCsvErrorSkipped ==
    /\ pc = "read"
    /\ Len(dfs) < nfiles
    /\ files' = Append(files, Unreadable)
    /\ dfs' = Append(dfs, NoFrame)
    /\ UNCHANGED <<nfiles, output, pc, combined_df, data, benchmarks, bar_width,
                   containers, xticks, saved, printed, shown>>

\* pd.read_csv raises (the file is missing or cannot be read): the exception
\* leaves process_benchmark_data and main.
ReadCsvError ==
    /\ pc = "read"
    /\ Len(dfs) < nfiles
    /\ files' = Append(files, Unreadable)
    /\ pc' = "failed"
    /\ UNCHANGED <<nfiles, output, dfs, combined_df, data, benchmarks, bar_width,
                   containers, xticks, saved, printed, shown>>

\* The value pandas fills a missing cell with.
FillNaN(c) == IF c = "Runtime (s)" THEN NaN ELSE NaNKey

RECURSIVE ConcatColumns(_)
ConcatColumns(frames) ==
    IF frames = <<>> THEN {}
    ELSE frames[1].columns \cup ConcatColumns(Tail(frames))

RECURSIVE ConcatRows(_)
ConcatRows(frames) ==
    IF frames = <<>> THEN <<>>
    ELSE frames[1].rows \o ConcatRows(Tail(frames))

\* pd.concat(dfs, ignore_index=True): the union of the columns, the rows in
\* list order, NaN where a frame has no such column.
PdConcat(frames) ==
    LET cols == ConcatColumns(frames)
        rs == ConcatRows(frames)
    IN  [columns |-> cols,
         rows |-> [k \in 1..Len(rs) |->
                     [c \in cols |-> IF c \in DOMAIN rs[k] THEN rs[k][c]
                                     ELSE FillNaN(c)]]]

Concat ==
    /\ pc = "read"
    /\ Len(dfs) = nfiles
    /\ combined_df' = PdConcat(dfs)
    /\ pc' = "groupby"
    /\ UNCHANGED <<nfiles, files, output, dfs, data, benchmarks, bar_width,
                   containers, xticks, saved, printed, shown>>

\* Series.unique(): the distinct values in order of first appearance.
RECURSIVE UniqueFrom(_, _)
UniqueFrom(vals, seen) ==
    IF vals = <<>> THEN <<>>
    ELSE IF vals[1] \in seen THEN UniqueFrom(Tail(vals), seen)
    ELSE <<vals[1]>> \o UniqueFrom(Tail(vals), seen \cup {vals[1]})

KeyOf(r) == <<r["Binary"], r["Benchmark File"]>>

\* Mutant of HasKey: dropna=False, rows with a NaN key form groups too.
HasKeyKeepNaN(r) == TRUE

\* groupby drops the rows with a NaN key (dropna=True).
HasKey(r) == r["Binary"] # NaNKey /\ r["Benchmark File"] # NaNKey

KeyLess(a, b) ==
    \/ Rank(a[1]) < Rank(b[1])
    \/ a[1] = b[1] /\ Rank(a[2]) < Rank(b[2])

\* The keys of S in ascending order (groupby sort=True).
RECURSIVE SortKeys(_)
SortKeys(S) ==
    IF S = {} THEN <<>>
    ELSE LET m == CHOOSE a \in S : \A b \in S \ {a} : KeyLess(a, b)
         IN  <<m>> \o SortKeys(S \ {m})

\* Mutant of GroupSum: the rows are matched on Binary alone.
RECURSIVE GroupSumByBinary(_, _)
GroupSumByBinary(rows, key) ==
    IF rows = <<>> THEN [sum |-> Int2Rat(0), count |-> 0]
    ELSE LET rest == GroupSumByBinary(Tail(rows), key)
             r == rows[1]
         IN  IF HasKey(r) /\ r["Binary"] = key[1] /\ ~IsNaN(r["Runtime (s)"])
             THEN [sum |-> RAdd(r["Runtime (s)"], rest.sum), count |-> rest.count + 1]
             ELSE rest

\* Sum and count of the non-NaN runtimes of the rows of one group, in row order.
RECURSIVE GroupSum(_, _)
GroupSum(rows, key) ==
    IF rows = <<>> THEN [sum |-> Int2Rat(0), count |-> 0]
    ELSE LET rest == GroupSum(Tail(rows), key)
             r == rows[1]
         IN  IF HasKey(r) /\ KeyOf(r) = key /\ ~IsNaN(r["Runtime (s)"])
             THEN [sum |-> RAdd(r["Runtime (s)"], rest.sum), count |-> rest.count + 1]
             ELSE rest

\* .mean() of one group: NaN cells are skipped, a group of NaN only gives NaN.
GroupMean(rows, key) ==
    LET sc == GroupSum(rows, key)
    IN  IF sc.count = 0 THEN NaN ELSE RDivInt(sc.sum, sc.count)

\* The keys of the rows that have one, in row order.
RowKeys(rows) ==
    LET keyed == SelectSeq(rows, HasKey)
    IN  [k \in 1..Len(keyed) |-> KeyOf(keyed[k])]

\* Mutant of GroupKeys: sort=False, the keys in order of first appearance.
GroupKeysUnsorted(rows) == UniqueFrom(RowKeys(rows), {})

\* Mutant of GroupKeys: no grouping, one key per row.
GroupKeysPerRow(rows) == RowKeys(rows)

\* The group keys of the rows, NaN keys dropped, in ascending order.
GroupKeys(rows) ==
    SortKeys({KeyOf(rows[k]) : k \in {j \in 1..Len(rows) : HasKey(rows[j])}})

\* groupby(['Binary', 'Benchmark File'])['Runtime (s)'].mean().reset_index()
GroupByMean(rows) ==
    LET keys == GroupKeys(rows)
    IN  [g \in 1..Len(keys) |->
           [c \in AllColumns |->
              IF c = "Binary" THEN keys[g][1]
              ELSE IF c = "Benchmark File" THEN keys[g][2]
              ELSE GroupMean(rows, keys[g])]]

\* Line 29 on a frame that has the three columns; the table is returned to
\* main and handed to create_bar_chart.
GroupBy ==
    /\ pc = "groupby"
    /\ AllColumns \subseteq combined_df.columns
    /\ data' = GroupByMean(combined_df.rows)
    /\ pc' = "chart"
    /\ UNCHANGED <<nfiles, files, output, dfs, combined_df, benchmarks, bar_width,
                   containers, xticks, saved, printed, shown>>

\* Line 29 raises KeyError: a grouping column or 'Runtime (s)' is in no frame.
GroupByKeyError ==
    /\ pc = "groupby"
    /\ ~(AllColumns \subseteq combined_df.columns)
    /\ pc' = "failed"
    /\ UNCHANGED <<nfiles, files, output, dfs, combined_df, data, benchmarks, bar_width,
                   containers, xticks, saved, printed, shown>>

\* ------------------------------------------------------ create_bar_chart
Unique(table, c) == UniqueFrom([k \in 1..Len(table) |-> table[k][c]], {})

\* Mutant of BarWidthOf: the width is not divided by the number of binaries.
BarWidthUndivided(n) == Rat(8, 10)

\* 0.8 / n
BarWidthOf(n) == Rat(8, 10 * n)

\* Lines 45-46 with at least one binary in the table.
BarWidth ==
    /\ pc = "chart"
    /\ Len(Unique(data, "Binary")) # 0
    /\ benchmarks' = Unique(data, "Benchmark File")
    /\ bar_width' = BarWidthOf(Len(Unique(data, "Binary")))
    /\ pc' = "bars"
    /\ UNCHANGED <<nfiles, files, output, dfs, combined_df, data,
                   containers, xticks, saved, printed, shown>>

\* Mutant of BarWidthZeroDivision: the division is guarded, 0.8 / max(n, 1).
BarWidthGuarded ==
    /\ pc = "chart"
    /\ Len(Unique(data, "Binary")) = 0
    /\ benchmarks' = Unique(data, "Benchmark File")
    /\ bar_width' = BarWidthOf(1)
    /\ pc' = "bars"
    /\ UNCHANGED <<nfiles, files, output, dfs, combined_df, data,
                   containers, xticks, saved, printed, shown>>

\* Line 46 on a table without rows: 0.8 / 0 raises ZeroDivisionError.
BarWidthZeroDivision ==
    /\ pc = "chart"
    /\ Len(Unique(data, "Binary")) = 0
    /\ benchmarks' = Unique(data, "Benchmark File")
    /\ pc' = "failed"
    /\ UNCHANGED <<nfiles, files, output, dfs, combined_df, data, bar_width,
                   containers, xticks, saved, printed, shown>>

\* data[data['Binary'] == binary]
BinaryData(table, binary) == SelectSeq(table, LAMBDA r : r["Binary"] = binary)

\* [p + i * bar_width for p in range(len(benchmarks))]
BarPositions(i, m, w) ==
    [j \in 1..m |-> RAdd(Int2Rat(j - 1), RMul(Int2Rat(i), w))]

\* plt.bar broadcasts x and height to one shape: equal lengths pair up,
\* a single value is repeated, anything else cannot be broadcast.
CanBroadcast(xs, hs) == Len(xs) = Len(hs) \/ Len(hs) = 1 \/ Len(xs) = 1

BroadcastLen(xs, hs) == IF Len(xs) >= Len(hs) THEN Len(xs) ELSE Len(hs)

BarsOf(xs, hs, w) ==
    [j \in 1..BroadcastLen(xs, hs) |->
        [x |-> IF Len(xs) = 1 THEN xs[1] ELSE xs[j],
         height |-> IF Len(hs) = 1 THEN hs[1] ELSE hs[j],
         width |-> w]]

\* The binary of the next iteration of the loop of line 48 and its arguments
\* to plt.bar.
NextBinary == Unique(data, "Binary")[Len(containers) + 1]
NextX == BarPositions(Len(containers), Len(benchmarks), bar_width)
NextHeights ==
    LET bd == BinaryData(data, NextBinary)
    IN  [k \in 1..Len(bd) |-> bd[k]["Runtime (s)"]]

\* One iteration of the loop of lines 48-54.
Bar ==
    /\ pc = "bars"
    /\ Len(containers) < Len(Unique(data, "Binary"))
    /\ CanBroadcast(NextX, NextHeights)
    /\ containers' = Append(containers,
                            [label |-> PathName(NextBinary),
                             bars |-> BarsOf(NextX, NextHeights, bar_width)])
    /\ UNCHANGED <<nfiles, files, output, pc, dfs, combined_df, data, benchmarks,
                   bar_width, xticks, saved, printed, shown>>

\* plt.bar raises ValueError: shape mismatch.
BarShapeError ==
    /\ pc = "bars"
    /\ Len(containers) < Len(Unique(data, "Binary"))
    /\ ~CanBroadcast(NextX, NextHeights)
    /\ pc' = "failed"
    /\ UNCHANGED <<nfiles, files, output, dfs, combined_df, data, benchmarks,
                   bar_width, containers, xticks, saved, printed, shown>>

\* Lines 60-62, after the loop: tick j is labelled with the stem of the
\* j-th benchmark.
XTicks ==
    /\ pc = "bars"
    /\ Len(containers) = Len(Unique(data, "Binary"))
    /\ xticks' = [j \in 1..Len(benchmarks) |-> PathStem(benchmarks[j])]
    /\ pc' = "output"
    /\ UNCHANGED <<nfiles, files, output, dfs, combined_df, data, benchmarks,
                   bar_width, containers, saved, printed, shown>>

\* Line 70: plt.savefig(output_path) writes the image.
SaveFig ==
    /\ pc = "output"
    /\ Truthy(output)
    /\ saved' = output
    /\ pc' = "print"
    /\ UNCHANGED <<nfiles, files, output, dfs, combined_df, data, benchmarks,
                   bar_width, containers, xticks, printed, shown>>

\* Line 70: plt.savefig raises (the path cannot be written).
SaveFigError ==
    /\ pc = "output"
    /\ Truthy(output)
    /\ pc' = "failed"
    /\ UNCHANGED <<nfiles, files, output, dfs, combined_df, data, benchmarks,
                   bar_width, containers, xticks, saved, printed, shown>>

\* Mutant of PrintSaved: plt.show() follows the report instead of standing
\* in the else branch.
PrintSavedThenShow ==
    /\ pc = "print"
    /\ printed' = Append(printed, <<"Chart saved to ", output[1]>>)
    /\ shown' = TRUE
    /\ pc' = "done"
    /\ UNCHANGED <<nfiles, files, output, dfs, combined_df, data, benchmarks,
                   bar_width, containers, xticks, saved>>

\* Line 71: print(f"Chart saved to {output_path}")
PrintSaved ==
    /\ pc = "print"
    /\ printed' = Append(printed, <<"Chart saved to ", output[1]>>)
    /\ pc' = "done"
    /\ UNCHANGED <<nfiles, files, output, dfs, combined_df, data, benchmarks,
                   bar_width, containers, xticks, saved, shown>>

\* Line 73: plt.show()
Show ==
    /\ pc = "output"
    /\ ~Truthy(output)
    /\ shown' = TRUE
    /\ pc' = "done"
    /\ UNCHANGED <<nfiles, files, output, dfs, combined_df, data, benchmarks,
                   bar_width, containers, xticks, saved, printed>>

Next ==
    \/ ReadCsv
    \/ ReadCsvError
    \/ Concat
    \/ GroupBy
    \/ GroupByKeyError
    \/ BarWidth
    \/ BarWidthZeroDivision
    \/ Bar
    \/ BarShapeError
    \/ XTicks
    \/ SaveFig
    \/ SaveFigError
    \/ PrintSaved
    \/ Show

Spec == Init /\ [][Next]_vars

\* -------------------------------------- process_benchmark_data on its own
\* process_benchmark_data up to the returned table or the exception.
InitAgg == InitWith({None})

NextAgg ==
    \/ ReadCsvAgg
    \/ ReadCsvError
    \/ Concat
    \/ GroupBy
    \/ GroupByKeyError

SpecAgg == InitAgg /\ [][NextAgg]_vars

\* process_benchmark_data on files that differ in the order of their rows.
NextReordered ==
    \/ ReadCsvReordered
    \/ Concat
    \/ GroupBy

SpecReordered == InitAgg /\ [][NextReordered]_vars

\* ------------------------------------------- create_bar_chart on its own
\* The chart stage entered with the table of one input file that has one row
\* per key, over up to MaxBinaries binaries.
BinaryNames == <<"build/clox", "build/jlox", "build/rlox", "build/zlox">>
ChartBinaries == {BinaryNames[k] : k \in 1..MaxBinaries}

ChartFile(keys) ==
    LET ks == SortKeys(keys)
    IN  [readable |-> TRUE,
         columns |-> AllColumns,
         rows |-> [k \in 1..Len(ks) |->
                     [c \in AllColumns |->
                        IF c = "Binary" THEN ks[k][1]
                        ELSE IF c = "Benchmark File" THEN ks[k][2]
                        ELSE Int2Rat(Rank(ks[k][1]) + 4 * Rank(ks[k][2]))]]]

InitChart ==
    /\ nfiles = 1
    /\ \E keys \in SUBSET (ChartBinaries \X FullRun.benchmarks) :
          files = <<ChartFile(keys)>>
    /\ output \in Outputs
    /\ pc = "chart"
    /\ dfs = <<[columns |-> files[1].columns, rows |-> files[1].rows]>>
    /\ combined_df = PdConcat(dfs)
    /\ data = GroupByMean(combined_df.rows)
    /\ benchmarks = <<>>
    /\ bar_width = NaN
    /\ containers = <<>>
    /\ xticks = <<>>
    /\ saved = None
    /\ printed = <<>>
    /\ shown = FALSE

NextChart ==
    \/ BarWidth
    \/ BarWidthZeroDivision
    \/ Bar
    \/ BarShapeError
    \/ XTicks
    \/ SaveFig
    \/ SaveFigError
    \/ PrintSaved
    \/ Show

SpecChart == InitChart /\ [][NextChart]_vars

\* ------------------------------------------------------------ the claims
\* process_benchmark_data has returned its table to main.
Returned == pc \in {"chart", "bars", "output", "print", "done"}

\* Every input file read carries the three required columns.
AllFull == \A f \in 1..Len(files) : files[f].readable /\ files[f].columns = AllColumns

\* The rows of the input: <<file, row>> positions.
InputCells ==
    UNION { { <<f, k>> : k \in 1..Len(files[f].rows) } : f \in 1..Len(files) }
CellRow(c) == files[c[1]].rows[c[2]]
CellKey(c) == <<CellRow(c)["Binary"], CellRow(c)["Benchmark File"]>>

\* The rows of file f that have both a Binary and a Benchmark File cell.
KeyedCells(f) ==
    {c \in InputCells : c[1] = f /\ {"Binary", "Benchmark File"} \subseteq DOMAIN CellRow(c)}
FileKeys(f) == {CellKey(c) : c \in KeyedCells(f)}
InputKeys == UNION {FileKeys(f) : f \in 1..Len(files)}
Matching(key) == {c \in InputCells : c \in KeyedCells(c[1]) /\ CellKey(c) = key}

RECURSIVE SumOver(_)
SumOver(S) ==
    IF S = {} THEN Int2Rat(0)
    ELSE LET c == CHOOSE x \in S : TRUE
         IN  RAdd(CellRow(c)["Runtime (s)"], SumOver(S \ {c}))

TableKey(g) == <<data[g]["Binary"], data[g]["Benchmark File"]>>
TableRows(key) == {g \in 1..Len(data) : TableKey(g) = key}

\* C1: when every input row carries the three required columns, the runtime
\* returned for each (Binary, Benchmark File) pair of the input is the sum of
\* the runtimes of exactly the input rows with that pair, across all files,
\* divided by their number; a pair with one row keeps that row's runtime.
C1_MeanOfMatchingRows ==
    (Returned /\ AllFull) =>
        \A key \in InputKeys :
            /\ TableRows(key) # {}
            /\ \A g \in TableRows(key) :
                 LET m == data[g]["Runtime (s)"]
                     M == Matching(key)
                     total == SumOver(M)
                 IN  /\ ~IsNaN(m)
                     /\ m.num * (total.den * Cardinality(M)) = total.num * m.den
                     /\ Cardinality(M) = 1 =>
                            \A c \in M : m = CellRow(c)["Runtime (s)"]

\* A pair whose rows come from two files with different runtimes, next to a
\* pair with a single row.
C1_Witness ==
    /\ Returned /\ AllFull /\ Len(files) = 2
    /\ \E key \in InputKeys :
         /\ \E c, d \in Matching(key) :
               c[1] # d[1] /\ CellRow(c)["Runtime (s)"] # CellRow(d)["Runtime (s)"]
         /\ \E g \in TableRows(key) : data[g]["Runtime (s)"] = Int2Rat(2)
    /\ \E key \in InputKeys : Cardinality(Matching(key)) = 1

\* C2: the returned table has exactly one row for every (Binary, Benchmark
\* File) pair that occurs in an input row, and no row for any other pair.
C2_OneRowPerPair ==
    Returned =>
        /\ \A key \in InputKeys : Cardinality(TableRows(key)) = 1
        /\ \A g \in 1..Len(data) : TableKey(g) \in InputKeys

\* Two pairs in the table, one of them with several input rows.
C2_Witness ==
    /\ Returned
    /\ Len(data) >= 2
    /\ \E key \in InputKeys : Cardinality(Matching(key)) >= 2

\* C7: for two files with disjoint key sets the table has as many rows as
\* the first file has distinct keys plus the second file has distinct keys.
C7_DisjointKeysAdd ==
    (Returned /\ Len(files) = 2 /\ FileKeys(1) \cap FileKeys(2) = {}) =>
        Len(data) = Cardinality(FileKeys(1)) + Cardinality(FileKeys(2))

\* Both files bring keys, and one of them repeats a key.
C7_Witness ==
    /\ Returned /\ Len(files) = 2 /\ FileKeys(1) \cap FileKeys(2) = {}
    /\ FileKeys(1) # {} /\ FileKeys(2) # {}
    /\ \E f \in 1..2 : Cardinality(KeyedCells(f)) > Cardinality(FileKeys(f))

\* The permutations of 1..n.
Perms(n) == {p \in [1..n -> 1..n] : \A a, b \in 1..n : p[a] = p[b] => a = b}

\* The file list with the files in the order fp and the rows of file f in the
\* order rp[f].
Permuted(fp, rp) ==
    [f \in 1..Len(files) |->
        [columns |-> files[fp[f]].columns,
         rows |-> [k \in 1..Len(files[fp[f]].rows) |->
                     files[fp[f]].rows[rp[fp[f]][k]]]]]

\* One permutation of its rows for each of the first n files.
RECURSIVE RowPerms(_)
RowPerms(n) ==
    IF n = 0 THEN {<<>>}
    ELSE {Append(rp, p) : rp \in RowPerms(n - 1), p \in Perms(Len(files[n].rows))}

\* C9: the table returned for the files in any order, with the rows of each
\* file in any order, is the table returned for the files as given: the same
\* keys, the same means, the same row order.
C9_OrderIndependent ==
    pc = "chart" =>
        \A fp \in Perms(Len(files)) : \A rp \in RowPerms(Len(files)) :
            GroupByMean(PdConcat(Permuted(fp, rp)).rows) = data

\* Two files that differ, one with two different rows, and a table of two rows.
C9_Witness ==
    /\ pc = "chart" /\ Len(files) = 2 /\ files[1] # files[2]
    /\ \E f \in 1..2 : Len(files[f].rows) >= 2 /\ files[f].rows[1] # files[f].rows[2]
    /\ Len(data) >= 2

\* Nothing of a chart exists: no bar, no tick, no file, no report, no window.
NoChart ==
    /\ containers = <<>> /\ xticks = <<>>
    /\ saved = None /\ printed = <<>> /\ shown = FALSE

\* Some input file that can be read has no "Runtime (s)" column.
LacksRuntime ==
    \E f \in 1..Len(files) : files[f].readable /\ "Runtime (s)" \notin files[f].columns

\* C3: when an input file lacks the column "Runtime (s)", whether or not
\* other files have it, the run does not finish and nothing of a chart is
\* drawn, saved or shown.
C3_MissingRuntimeFails == LacksRuntime => (pc # "done" /\ NoChart)

\* C4: when reading one of the input files fails, at any position of the
\* list, the run has failed at that file: the files before it were read, none
\* after it is tried (no retry, no skipping), no frame is concatenated, no
\* table is returned and nothing of a chart is drawn, saved or shown.
C4_UnreadablePropagates ==
    \A f \in 1..Len(files) : ~files[f].readable =>
        /\ pc = "failed"
        /\ f = Len(files) /\ Len(dfs) = f - 1
        /\ combined_df = NoFrame /\ data = <<>>
        /\ NoChart

\* The run has failed on the second file after the first, with rows, was
\* loaded.
C4_Witness ==
    /\ pc = "failed" /\ nfiles = 2 /\ Len(files) = 2
    /\ ~files[2].readable /\ Len(files[1].rows) > 0 /\ Len(dfs) = 1

\* What print() writes after a save to path.
SavedLine(path) == <<"Chart saved to ", path>>

NoDataRows == Len(files) = nfiles /\ AllFull /\ InputCells = {}

\* C10: with the required columns and no data rows the table is empty, and
\* the run fails in create_bar_chart at the bar width (line 46), right after
\* the table was returned: no bar is drawn, nothing is written, reported or
\* shown, and the run never finishes.
C10_EmptyTableFails ==
    /\ [](NoDataRows =>
            /\ pc \in {"read", "groupby", "chart", "failed"}
            /\ data = <<>> /\ bar_width = NaN
            /\ NoChart)
    /\ [][(NoDataRows /\ pc = "chart") => pc' = "failed"]_vars
    /\ [][(NoDataRows /\ pc' = "failed") => pc = "chart"]_vars

\* The run on a header-only file has failed after the table was computed.
C10_Witness ==
    /\ NoDataRows /\ Len(dfs) = nfiles
    /\ pc = "failed" /\ combined_df.columns = AllColumns

\* The loop of lines 48-54 has ended without an error.
BarsDrawn == pc \in {"output", "print", "done"}

AllBars ==
    {<<i, j>> \in (1..Len(containers)) \X (1..Len(data) + 1) :
        j <= Len(containers[i].bars)}
BarAt(b) == containers[b[1]].bars[b[2]]

\* The slot of the bar of the i-th binary at the j-th benchmark, of n binaries:
\* (j - 1) + (i - 1) * 0.8 / n.
SlotX(i, j, n) == Rat(10 * n * (j - 1) + 8 * (i - 1), 10 * n)

\* The index of value v in the sequence q of distinct values.
IndexOf(q, v) == CHOOSE k \in 1..Len(q) : q[k] = v

\* C6: once the bars are drawn there is exactly one bar per row of the
\* table, and the row of the i-th distinct binary and the j-th distinct
\* benchmark has its bar in the i-th container at x = (j - 1) + (i - 1) *
\* bar_width, with the mean of that row as height, under the tick labelled
\* with the j-th benchmark.
C6_OneBarPerPair ==
    BarsDrawn =>
        LET bins == Unique(data, "Binary")
            bms == Unique(data, "Benchmark File")
        IN  /\ Cardinality(AllBars) = Len(data)
            /\ Len(xticks) = Len(bms)
            /\ \A g \in 1..Len(data) :
                 LET i == IndexOf(bins, data[g]["Binary"])
                     j == IndexOf(bms, data[g]["Benchmark File"])
                 IN  /\ xticks[j] = PathStem(data[g]["Benchmark File"])
                     /\ \E b \in AllBars :
                          /\ b[1] = i
                          /\ BarAt(b).x = SlotX(i, j, Len(bins))
                          /\ BarAt(b).height = data[g]["Runtime (s)"]

\* The edges of a bar: plt.bar centres the bar on x.
BarLeft(b) == RSub(BarAt(b).x, RDivInt(BarAt(b).width, 2))
BarRight(b) == RAdd(BarAt(b).x, RDivInt(BarAt(b).width, 2))
RLeq(a, b) == a = b \/ RLess(a, b)

\* The number of distinct binaries of the table.
NumBinaries == Cardinality({data[g]["Binary"] : g \in 1..Len(data)})

\* C8: with n distinct binaries every bar is 0.8 / n wide and the bar of the
\* i-th binary at benchmark position p stands at p + i * 0.8 / n; the bars
\* of one position touch without overlapping and span 0.8 together, and no
\* two bars of the chart overlap, those of adjacent positions included.
C8_BarGeometry ==
    LET n == NumBinaries IN
    /\ \A b \in AllBars :
         /\ BarAt(b).width = Rat(8, 10 * n)
         /\ BarAt(b).x = SlotX(b[1], b[2], n)
    /\ \A a, b \in AllBars :
         /\ (a[2] = b[2] /\ b[1] = a[1] + 1) => BarRight(a) = BarLeft(b)
         /\ (a[2] = b[2] /\ a[1] = 1 /\ b[1] = n) =>
                RSub(BarRight(b), BarLeft(a)) = Rat(8, 10)
         /\ (b[2] = a[2] + 1) => RLess(BarRight(a), BarLeft(b))
         /\ a # b => (RLeq(BarRight(a), BarLeft(b)) \/ RLeq(BarRight(b), BarLeft(a)))

\* A finished chart of three binaries over two benchmarks or more.
C8_Witness ==
    /\ pc = "done" /\ NumBinaries = 3 /\ Len(containers) = 3
    /\ Len(benchmarks) >= 2
    /\ \A i \in 1..3 : Len(containers[i].bars) = Len(benchmarks)

====
